---- MODULE Spec2Model ----
(***************************************************************************)
(* tensorflow_recommenders/models/base.py: the base Model of TFRS.         *)
(*                                                                         *)
(* The class drives one optimisation step (train_step) and one evaluation  *)
(* step (test_step) around a loss supplied by a subclass.  The state is    *)
(* the model object's: its trainable variables, its metric accumulators    *)
(* and which of train_loss / test_loss the subclass overrides.  Each step  *)
(* call is one action; the collaborators it calls (the subclass's loss,    *)
(* the gradient tape, the optimizer, the metrics) are part of the action.  *)
(***************************************************************************)
EXTENDS Integers, Sequences, FiniteSets, TLC

\* ------------------------------------------------------------------ bounds

\* Number of step calls a behaviour makes.
MaxSteps == 2
\* Largest features tensor carried by a batch.
MaxTensor == 1
\* Deepest one-element-tuple wrapping of a batch.
MaxWrap == 2

\* ------------------------------------------------------------ the batches

\* A batch is a structure of tensors: a tensor, or a tuple of structures.
Tensor(v) == [tuple |-> FALSE, tensor |-> v, items |-> << >>]
Tuple(s) == [tuple |-> TRUE, tensor |-> 0, items |-> s]

Tensors == 0..MaxTensor
\* Binary labels.
LabelTensors == {0, 1}

\* The unwrapped batches: a features tensor, a (features, labels) pair, ().
Plain ==
  {Tensor(v) : v \in Tensors}
    \cup {Tuple(<<Tensor(f), Tensor(l)>>) : f \in Tensors, l \in LabelTensors}
    \cup {Tuple(<< >>)}

RECURSIVE Wrapped(_)
\* The plain batches inside exactly n one-element tuples.
Wrapped(n) == IF n = 0 THEN Plain ELSE {Tuple(<<s>>) : s \in Wrapped(n - 1)}

Inputs == UNION {Wrapped(n) : n \in 0..MaxWrap}

\* ------------------------------------------------------------- the model

\* The trainable variables of the model (a two-tower model's embeddings).
VarNames == {"user", "item"}
\* The metrics a subclass may own, by name: none, an accumulator, or
\* accumulators named "loss" and "rmse" beside a "weight" metric.
MetricSets == {{}, {"rmse"}, {"loss", "rmse", "weight"}}
NoError == "none"

VARIABLES
  trainable_variables,  \* self.trainable_variables: name -> value
  metrics,              \* self.metrics: name -> accumulator [total, count]
  has_train_loss,       \* the subclass overrides train_loss
  has_test_loss,        \* the subclass overrides test_loss
  used,                 \* the variables the subclass's loss reads
  nsteps,               \* step calls made so far
  last                  \* the last step call: its arguments, pre-state, outcome

vars == <<trainable_variables, metrics, has_train_loss, has_test_loss, used,
          nsteps, last>>

\* ------------------------------------------------- the subclass's loss

RECURSIVE SumOver(_, _)
\* The sum of f[v] over the names v of S.
SumOver(S, f) ==
  IF S = {} THEN 0
  ELSE LET v == CHOOSE e \in S : TRUE IN f[v] + SumOver(S \ {v}, f)

\* What the subclass's loss reads of a batch: a features tensor, or a
\* (features, labels) pair.  Any other structure is a shape mismatch.
ValidBatch(x) ==
  \/ ~x.tuple
  \/ /\ Len(x.items) = 2
     /\ ~x.items[1].tuple
     /\ ~x.items[2].tuple

Features(x) == IF x.tuple THEN x.items[1].tensor ELSE x.tensor

Labels(x) == IF x.tuple THEN x.items[2].tensor ELSE 0

\* The scalar loss: the used variables applied to the features, against the
\* labels; training mode adds a regularisation term.
LossValue(w, x, training) ==
  SumOver(used, [v \in VarNames |-> w[v] * Features(x)]) - Labels(x)
    + (IF training THEN 1 ELSE 0)

\* metric.update_state(loss) of every accumulating metric; the "weight"
\* metric keeps no state of its own, it reports a variable.
update_state(acc, loss) ==
  [m \in DOMAIN acc |->
     IF m = "weight" THEN acc[m]
     ELSE [total |-> acc[m].total + loss, count |-> acc[m].count + 1]]

\* metric.result(): the running mean of an accumulator, or the current
\* value of the "user" variable for the "weight" metric.
result(m, acc, w) ==
  IF m = "weight" THEN w["user"]
  ELSE IF acc[m].count = 0 THEN 0
  ELSE acc[m].total \div acc[m].count

\* One call of a loss method: what it raised, the loss it returned, the
\* accumulators it leaves, and the call as the method saw it.
LossCall(err, loss, acc, x, training) ==
  [err |-> err, loss |-> loss, metrics |-> acc,
   call |-> [inputs |-> x, training |-> training]]

\* train_loss as a subclass implements it: compute the loss of the batch and
\* update the model's metrics.
subclass_train_loss(w, acc, x, training) ==
  IF ~ValidBatch(x) THEN LossCall("InvalidArgumentError", 0, acc, x, training)
  ELSE LET loss == LossValue(w, x, training)
       IN LossCall(NoError, loss, update_state(acc, loss), x, training)

\* A base train_loss that returns a zero loss where the code raises.
base_train_loss_returns_zero(w, acc, x, training) ==
  LossCall(NoError, 0, acc, x, training)

\* Model.train_loss of the base class.
base_train_loss(w, acc, x, training) ==
  LossCall("NotImplementedError", 0, acc, x, training)

\* self.train_loss(...): the subclass's override if there is one.
train_loss(w, acc, x, training) ==
  IF has_train_loss THEN subclass_train_loss(w, acc, x, training)
  ELSE base_train_loss(w, acc, x, training)

\* A base test_loss that calls self.train_loss(inputs, training=False).
base_test_loss_eval_mode(w, acc, x) == train_loss(w, acc, x, FALSE)

\* Model.test_loss of the base class: self.train_loss(inputs), where
\* training takes its default, True.
base_test_loss(w, acc, x) == train_loss(w, acc, x, TRUE)

\* test_loss as a subclass overrides it: the loss in evaluation mode.
subclass_test_loss(w, acc, x) == train_loss(w, acc, x, FALSE)

\* self.test_loss(...): the subclass's override if there is one.
test_loss(w, acc, x) ==
  IF has_test_loss THEN subclass_test_loss(w, acc, x)
  ELSE base_test_loss(w, acc, x)

\* ------------------------------------------- the tape and the optimizer

\* A gradient, or None for a variable the loss does not depend on.
Grad(v) == [none |-> FALSE, value |-> v]
None == [none |-> TRUE, value |-> 0]

\* tape.gradient(loss, self.trainable_variables): one gradient per variable,
\* unless the backward pass runs out of memory (oom).
gradient(w, x, oom) ==
  IF oom
  THEN [err |-> "ResourceExhaustedError", gradients |-> [v \in VarNames |-> None]]
  ELSE [err |-> NoError,
        gradients |-> [v \in VarNames |->
                         IF v \in used THEN Grad(Features(x)) ELSE None]]

\* self.optimizer.apply_gradients(zip(gradients, variables)), gradient
\* descent with a unit learning rate: pairs whose gradient is None are
\* dropped, and the call is refused when no pair is left.
apply_gradients(w, g) ==
  IF \A v \in VarNames : g[v].none
  THEN [err |-> "ValueError", variables |-> w]
  ELSE [err |-> NoError,
        variables |-> [v \in VarNames |->
                         IF g[v].none THEN w[v] ELSE w[v] - g[v].value]]

\* ------------------------------------------------------------ the steps

\* A step that hands its argument to the loss as it came.
unpack_never(inputs) == inputs

\* if isinstance(inputs, tuple) and len(inputs) == 1: inputs = inputs[0]
unpack(inputs) ==
  IF inputs.tuple /\ Len(inputs.items) = 1 THEN inputs.items[1] ELSE inputs

NoMetrics == [n \in {} |-> 0]

\* A mapping in which a metric named "loss" wins over the step's loss.
metrics_dict_metric_wins(acc, w, loss) ==
  [n \in DOMAIN acc \cup {"loss"} |->
     IF n \in DOMAIN acc THEN result(n, acc, w) ELSE loss]

\* {metric.name: metric.result() for metric in self.metrics}, then
\* metrics["loss"] = loss.
metrics_dict(acc, w, loss) ==
  [n \in DOMAIN acc \cup {"loss"} |->
     IF n = "loss" THEN loss ELSE result(n, acc, w)]

\* A step that raised err: nothing is returned; the state is as the
\* failing call left it.
Raise(err, w, acc, calls, loss, grads) ==
  [err |-> err, returned |-> FALSE, ret |-> NoMetrics,
   variables |-> w, metrics |-> acc,
   calls |-> calls, loss |-> loss, gradients |-> grads]

\* A step that returned the mapping ret.
Return(ret, w, acc, calls, loss, grads) ==
  [err |-> NoError, returned |-> TRUE, ret |-> ret,
   variables |-> w, metrics |-> acc,
   calls |-> calls, loss |-> loss, gradients |-> grads]

\* A train step that never applies the gradients.
train_step_without_apply(w, acc, inputs, oom) ==
  LET x == unpack(inputs)
      l == train_loss(w, acc, x, TRUE)
      g == gradient(w, x, oom)
  IN IF l.err # NoError
       THEN Raise(l.err, w, l.metrics, <<l.call>>, << >>, << >>)
     ELSE IF g.err # NoError
       THEN Raise(g.err, w, l.metrics, <<l.call>>, <<l.loss>>, << >>)
     ELSE Return(metrics_dict(l.metrics, w, l.loss),
                 w, l.metrics, <<l.call>>, <<l.loss>>, <<g.gradients>>)

\* A train step that catches a failure of the optimizer and returns the
\* metrics it has.
train_step_swallows_error(w, acc, inputs, oom) ==
  LET x == unpack(inputs)
      l == train_loss(w, acc, x, TRUE)
      g == gradient(w, x, oom)
      a == apply_gradients(w, g.gradients)
  IN IF l.err # NoError
       THEN Raise(l.err, w, l.metrics, <<l.call>>, << >>, << >>)
     ELSE IF g.err # NoError
       THEN Raise(g.err, w, l.metrics, <<l.call>>, <<l.loss>>, << >>)
     ELSE Return(metrics_dict(l.metrics, a.variables, l.loss),
                 a.variables, l.metrics, <<l.call>>, <<l.loss>>,
                 <<g.gradients>>)

\* A train step that reads the metrics before it computes the loss.
train_step_snapshot_first(w, acc, inputs, oom) ==
  LET x == unpack(inputs)
      l == train_loss(w, acc, x, TRUE)
      g == gradient(w, x, oom)
      a == apply_gradients(w, g.gradients)
  IN IF l.err # NoError
       THEN Raise(l.err, w, l.metrics, <<l.call>>, << >>, << >>)
     ELSE IF g.err # NoError
       THEN Raise(g.err, w, l.metrics, <<l.call>>, <<l.loss>>, << >>)
     ELSE IF a.err # NoError
       THEN Raise(a.err, a.variables, l.metrics, <<l.call>>, <<l.loss>>,
                  <<g.gradients>>)
     ELSE Return(metrics_dict(acc, w, l.loss),
                 a.variables, l.metrics, <<l.call>>, <<l.loss>>,
                 <<g.gradients>>)

\* A train step that rejects a gradient of None.
train_step_rejects_none(w, acc, inputs, oom) ==
  LET x == unpack(inputs)
      l == train_loss(w, acc, x, TRUE)
      g == gradient(w, x, oom)
      a == apply_gradients(w, g.gradients)
  IN IF l.err # NoError
       THEN Raise(l.err, w, l.metrics, <<l.call>>, << >>, << >>)
     ELSE IF g.err # NoError
       THEN Raise(g.err, w, l.metrics, <<l.call>>, <<l.loss>>, << >>)
     ELSE IF a.err # NoError \/ \E v \in VarNames : g.gradients[v].none
       THEN Raise("ValueError", w, l.metrics, <<l.call>>, <<l.loss>>,
                  <<g.gradients>>)
     ELSE Return(metrics_dict(l.metrics, a.variables, l.loss),
                 a.variables, l.metrics, <<l.call>>, <<l.loss>>,
                 <<g.gradients>>)

\* Model.train_step(inputs) from variables w and accumulators acc.
train_step(w, acc, inputs, oom) ==
  LET x == unpack(inputs)
      l == train_loss(w, acc, x, TRUE)
      g == gradient(w, x, oom)
      a == apply_gradients(w, g.gradients)
  IN IF l.err # NoError
       THEN Raise(l.err, w, l.metrics, <<l.call>>, << >>, << >>)
     ELSE IF g.err # NoError
       THEN Raise(g.err, w, l.metrics, <<l.call>>, <<l.loss>>, << >>)
     ELSE IF a.err # NoError
       THEN Raise(a.err, a.variables, l.metrics, <<l.call>>, <<l.loss>>,
                  <<g.gradients>>)
     ELSE Return(metrics_dict(l.metrics, a.variables, l.loss),
                 a.variables, l.metrics, <<l.call>>, <<l.loss>>,
                 <<g.gradients>>)

\* A test step that runs the training step's update.
test_step_applies_gradients(w, acc, inputs) == train_step(w, acc, inputs, FALSE)

\* Model.test_step(inputs) from variables w and accumulators acc.
test_step(w, acc, inputs) ==
  LET x == unpack(inputs)
      l == test_loss(w, acc, x)
  IN IF l.err # NoError
       THEN Raise(l.err, w, l.metrics, <<l.call>>, << >>, << >>)
     ELSE Return(metrics_dict(l.metrics, w, l.loss),
                 w, l.metrics, <<l.call>>, <<l.loss>>, << >>)

\* --------------------------------------------------------- the behaviours

NoCall ==
  [op |-> "none", inputs |-> Tensor(0), oom |-> FALSE,
   variables |-> [v \in VarNames |-> 1],
   metrics |-> [m \in {} |-> [total |-> 0, count |-> 0]],
   out |-> Raise(NoError, [v \in VarNames |-> 1],
                 [m \in {} |-> [total |-> 0, count |-> 0]],
                 << >>, << >>, << >>)]

Call(op, inputs, oom, out) ==
  [op |-> op, inputs |-> inputs, oom |-> oom,
   variables |-> trainable_variables, metrics |-> metrics, out |-> out]

\* The model as its subclass's __init__ leaves it: variables initialised,
\* the metrics created and empty.
Init ==
  /\ has_train_loss \in BOOLEAN
  /\ has_test_loss \in BOOLEAN
  /\ used \in SUBSET VarNames
  /\ \E names \in MetricSets :
       metrics = [m \in names |-> [total |-> 0, count |-> 0]]
  /\ trainable_variables = [v \in VarNames |-> 1]
  /\ nsteps = 0
  /\ last = NoCall

Step(op, inputs, oom, out) ==
  /\ nsteps < MaxSteps
  /\ nsteps' = nsteps + 1
  /\ trainable_variables' = out.variables
  /\ metrics' = out.metrics
  /\ last' = Call(op, inputs, oom, out)
  /\ UNCHANGED <<has_train_loss, has_test_loss, used>>

\* The caller runs model.train_step(inputs).
TrainStep ==
  \E inputs \in Inputs, oom \in BOOLEAN :
    Step("train", inputs, oom,
         train_step(trainable_variables, metrics, inputs, oom))

\* The caller runs model.test_step(inputs).
TestStep ==
  \E inputs \in Inputs :
    Step("test", inputs, FALSE,
         test_step(trainable_variables, metrics, inputs))

Next == TrainStep \/ TestStep

Spec == Init /\ [][Next]_vars

\* ------------------------------------------------------------- the claims

\* The last call, its pre-state and what it produced.
Acted == last.op # "none"
Returned == Acted /\ last.out.returned
Raised == Acted /\ last.out.err # NoError
Ret == last.out.ret
IsOneTuple(x) == x.tuple /\ Len(x.items) = 1
\* The variables whose gradient the last training step computed as None.
NoneVars == {v \in VarNames : last.out.gradients[1][v].none}
GradientsComputed == last.op = "train" /\ last.out.gradients # << >>

\* C1: an evaluation step never changes a trainable variable, whether it
\* returns or raises, after any interleaving of steps: the variables after
\* the call are those before it, and this is so of every batch the next
\* evaluation step may be given.
C1_TestStepKeepsVariables ==
  /\ last.op = "test" => trainable_variables = last.variables
  /\ \A inputs \in Inputs :
       test_step(trainable_variables, metrics, inputs).variables
         = trainable_variables

\* An evaluation step that returned, after a training step changed a variable.
C1_Witness ==
  /\ last.op = "test"
  /\ last.out.returned
  /\ trainable_variables["user"] # 1

\* C2: the mapping a step returns has the key "loss", its value is the loss
\* computed in that call (also when a metric is named "loss"), and every
\* other key is the name of a metric the model owns.
C2_LossKey ==
  Returned =>
    /\ "loss" \in DOMAIN Ret
    /\ Len(last.out.calls) = 1
    /\ Ret["loss"] = LossValue(last.variables, last.out.calls[1].inputs,
                               last.out.calls[1].training)
    /\ DOMAIN Ret \ {"loss"} \subseteq DOMAIN metrics
    /\ DOMAIN metrics \subseteq DOMAIN Ret

\* A returned mapping whose "loss" is not what the metric named "loss" reports.
C2_Witness ==
  /\ Returned
  /\ "loss" \in DOMAIN metrics
  /\ result("loss", metrics, trainable_variables) # Ret["loss"]

\* C3: with no test_loss override, an evaluation step on a batch computes the
\* loss a training step computes on the same batch from the same variables.
C3_DefaultDelegation ==
  (last.op = "test" /\ ~has_test_loss) =>
    /\ last.out.loss
         = train_step(last.variables, last.metrics, last.inputs, FALSE).loss
    /\ last.out.returned =>
         <<Ret["loss"]>>
           = train_step(last.variables, last.metrics, last.inputs, TRUE).loss

\* An evaluation step under the default delegation that returned a loss the
\* variables contribute to, after a training step moved them.
C3_Witness ==
  /\ last.op = "test"
  /\ ~has_test_loss
  /\ last.out.returned
  /\ used # {}
  /\ Features(last.out.calls[1].inputs) # 0
  /\ \E v \in used : last.variables[v] # 1

\* C4, as stated: a step given a one-element tuple holding S does what the
\* same step given S does, for any S.
C4_AnyStructure ==
  (Acted /\ IsOneTuple(last.inputs)) =>
    last.out =
      IF last.op = "train"
      THEN train_step(last.variables, last.metrics, last.inputs.items[1],
                      last.oom)
      ELSE test_step(last.variables, last.metrics, last.inputs.items[1])

\* C4, amended: a step given a one-element tuple holding S, where S is not
\* itself a one-element tuple, does what the same step given S does (the
\* loss is handed S; variables, accumulators and result agree), in training
\* and in evaluation alike.
C4_UnwrapOnce ==
  (Acted /\ IsOneTuple(last.inputs) /\ ~IsOneTuple(last.inputs.items[1])) =>
    /\ last.out.calls[1].inputs = last.inputs.items[1]
    /\ last.out =
         IF last.op = "train"
         THEN train_step(last.variables, last.metrics, last.inputs.items[1],
                         last.oom)
         ELSE test_step(last.variables, last.metrics, last.inputs.items[1])

\* A training step given (S,) that returned, S a (features, labels) pair.
C4_Witness ==
  /\ last.op = "train"
  /\ IsOneTuple(last.inputs)
  /\ Len(last.inputs.items[1].items) = 2
  /\ last.out.returned

\* C5: without a train_loss of the subclass, a training step raises
\* NotImplementedError for every batch, so does an evaluation step under the
\* default delegation, and neither returns a mapping.
C5_NotImplemented ==
  ~has_train_loss =>
    /\ \A inputs \in Inputs, oom \in BOOLEAN :
         LET out == train_step(trainable_variables, metrics, inputs, oom)
         IN out.err = "NotImplementedError" /\ ~out.returned
    /\ (Acted /\ (last.op = "train" \/ ~has_test_loss)) =>
         /\ last.out.err = "NotImplementedError"
         /\ ~last.out.returned
         /\ Ret = NoMetrics

\* An evaluation step of the bare base class, after a training step.
C5_Witness ==
  /\ ~has_train_loss
  /\ ~has_test_loss
  /\ last.op = "test"
  /\ nsteps = 2
  /\ last.out.err = "NotImplementedError"

\* C6: after a training step that returned, every variable whose gradient is
\* not None has had the optimizer's update applied, so a variable with a
\* non-zero gradient differs from its value before the call.
C6_GradientsApplied ==
  (last.op = "train" /\ last.out.returned) =>
    \A v \in VarNames \ NoneVars :
      LET g == last.out.gradients[1][v].value
      IN /\ trainable_variables[v] = last.variables[v] - g
         /\ g # 0 => trainable_variables[v] # last.variables[v]

\* A training step that returned with a non-zero gradient.
C6_Witness ==
  /\ last.op = "train"
  /\ last.out.returned
  /\ \E v \in VarNames \ NoneVars : last.out.gradients[1][v].value # 0

\* The error a training step of the last call's arguments meets first, stage
\* by stage.
FirstError ==
  LET x == last.out.calls[1].inputs
      l == IF last.op = "train" THEN train_loss(last.variables, last.metrics, x, TRUE)
           ELSE test_loss(last.variables, last.metrics, x)
      g == gradient(last.variables, x, last.oom)
      a == apply_gradients(last.variables, g.gradients)
  IN IF l.err # NoError \/ last.op = "test" THEN l.err
     ELSE IF g.err # NoError THEN g.err
     ELSE a.err

\* C7: a failure of the loss, of the gradient computation or of the optimizer
\* ends the step with that error; the loss method is called once, never
\* again; a step returns a mapping exactly when nothing failed.
C7_FailFast ==
  Acted =>
    /\ Len(last.out.calls) = 1
    /\ last.out.err = FirstError
    /\ last.out.returned <=> last.out.err = NoError
    /\ Raised => Ret = NoMetrics

\* A training step whose loss ran and updated the accumulators, and whose
\* optimizer then failed.
C7_Witness ==
  /\ last.op = "train"
  /\ last.out.err = "ValueError"
  /\ last.out.loss # << >>
  /\ "rmse" \in DOMAIN metrics
  /\ metrics["rmse"].count > last.metrics["rmse"].count

\* C8: the accumulators change only by the loss computation of a step (they
\* are never reset: an accumulator's count grows by one with each loss
\* computed), and the mapping returned reports every metric as it stands
\* after the loss computation and the optimizer's update.
C8_MetricsAfterLoss ==
  Acted =>
    /\ metrics = IF last.out.loss = << >> THEN last.metrics
                 ELSE update_state(last.metrics, last.out.loss[1])
    /\ \A m \in DOMAIN metrics \ {"weight"} :
         metrics[m].count >= last.metrics[m].count
    /\ last.out.returned =>
         \A n \in DOMAIN Ret \ {"loss"} :
           Ret[n] = result(n, metrics, trainable_variables)

\* A second training step whose mapping reports a running mean that is not
\* this step's loss, and a variable as the optimizer left it.
C8_Witness ==
  /\ last.op = "train"
  /\ last.out.returned
  /\ DOMAIN metrics = {"loss", "rmse", "weight"}
  /\ metrics["rmse"].count = 2
  /\ Ret["rmse"] # Ret["loss"]
  /\ Ret["weight"] # last.variables["user"]

\* C9, as stated: a training step whose gradients hold a None raises nothing,
\* leaves the variables of the None gradients alone and updates the others.
C9_NoneTolerated ==
  (GradientsComputed /\ NoneVars # {}) =>
    /\ last.out.err = NoError
    /\ \A v \in NoneVars : trainable_variables[v] = last.variables[v]
    /\ \A v \in VarNames \ NoneVars :
         trainable_variables[v]
           = last.variables[v] - last.out.gradients[1][v].value

\* C9, amended: a None among the gradients is tolerated as long as some
\* gradient is not None: the step raises nothing, the variables of the None
\* gradients keep their values and the others are updated.  When every
\* gradient is None the optimizer refuses the call: the step raises
\* ValueError and changes no variable.
C9_NoneToleratedUnlessAll ==
  (GradientsComputed /\ NoneVars # {}) =>
    /\ \A v \in NoneVars : trainable_variables[v] = last.variables[v]
    /\ NoneVars # VarNames =>
         /\ last.out.err = NoError
         /\ last.out.returned
         /\ \A v \in VarNames \ NoneVars :
              trainable_variables[v]
                = last.variables[v] - last.out.gradients[1][v].value
    /\ NoneVars = VarNames =>
         /\ last.out.err = "ValueError"
         /\ ~last.out.returned

\* A training step that returned, one gradient None, the other applied.
C9_Witness ==
  /\ GradientsComputed
  /\ last.out.returned
  /\ NoneVars = {"item"}
  /\ trainable_variables["user"] # last.variables["user"]

\* C10: under the default delegation the subclass's train_loss sees
\* training = True in the call of a training step and in the call of an
\* evaluation step alike.
C10_TrainingFlagTrue ==
  (Acted /\ (last.op = "train" \/ ~has_test_loss)) =>
    \A i \in 1..Len(last.out.calls) : last.out.calls[i].training

\* An evaluation step that ran the subclass's train_loss by delegation.
C10_Witness ==
  /\ last.op = "test"
  /\ has_train_loss
  /\ ~has_test_loss
  /\ last.out.returned
  /\ last.out.calls = <<[inputs |-> unpack(last.inputs), training |-> TRUE]>>

====
